---- MODULE Spec2Model ----
(***************************************************************************)
(* Background-removal pipeline of src/src/components/ImageEditor.tsx:      *)
(* the worker script (edge detection, seeding, chunked flood traversal)    *)
(* and the strip scheduler of the ImageEditor component that feeds it one  *)
(* horizontal strip at a time.                                             *)
(*                                                                         *)
(* Pixels are tuples <<r, g, b, a>>.  Every array of the source is a        *)
(* sequence; At(a, k) is the element the source writes a[k].               *)
(*                                                                         *)
(* The worker text is modelled statement by statement, its `await` in the  *)
(* traversal loop as a yield of the worker thread; what the worker runs    *)
(* between two yields is one step.  (The inner arrow function that         *)
(* contains that `await` is not declared async in the source; the model    *)
(* follows the statements as they are written.)                            *)
(***************************************************************************)
EXTENDS Integers, Sequences, FiniteSets, TLC

\* ------------------------------------------------------------------ bounds
MaxW == 3          \* widest enumerated small image
MaxH == 3          \* tallest enumerated small image
MaxMarks == 1      \* pixels of a small image that differ from its base colour
MaxRows == 1001    \* tallest enumerated one-column image (three strips)
HugeRows == 100001 \* a canvas height whose first strip is under half a percent
MaxRuns == 2       \* invocations of removeBackground in one behaviour
MaxSeeds == 3      \* most seeds of a strip whose orders are all tried
MaxStates == 4     \* saved states held by the two history stacks together

\* ------------------------------------------------------- program constants
chunkSize == 1000          \* worker: queue entries processed between yields
MaxChunkHeight == 500      \* scheduler: rows of one strip
DefaultThreshold == 30     \* worker: threshold || 30
BackgroundLevel == 240     \* worker: near-white test, channel > 240

\* ------------------------------------------------------------------ pixels
White == <<255, 255, 255, 255>>
Black == <<0, 0, 0, 255>>
Pale == <<250, 250, 250, 128>>       \* near-white, half transparent
Tinted == <<255, 255, 240, 255>>     \* bright, but B is not above 240
Dim == <<20, 20, 20, 255>>           \* dark grey
Palette == {White, Black, Pale, Tinted, Dim}

Min(a, b) == IF a < b THEN a ELSE b

\* a[k] of a zero-based array.
At(a, k) == a[k + 1]

\* JavaScript a % w for w > 0: the result takes the sign of the dividend.
JsMod(a, w) == IF a >= 0 THEN a % w ELSE 0 - ((0 - a) % w)

\* Math.floor(a / w) for w > 0.
FloorDiv(a, w) == IF a >= 0 THEN a \div w ELSE 0 - (((0 - a) + w - 1) \div w)

\* ------------------------------------------------- worker: edge detection
\* data[i]*0.299 + data[i+1]*0.587 + data[i+2]*0.114 stored into a Uint8Array
\* (truncated).  On the channel values of Palette the double-precision sum
\* truncates to the same byte as this integer form.
LuminanceOf(p) == (299 * p[1] + 587 * p[2] + 114 * p[3]) \div 1000

\* luminance[j] as read while the scan stands at index k: the array is
\* zero-filled and only the entries up to k have been stored.
LumAt(data, k, j) == IF j <= k THEN LuminanceOf(At(data, j)) ELSE 0

\* Interior with the right-hand limit off by one.
InteriorWide(W, H, x, y) == x > 0 /\ x < W /\ y > 0 /\ y < H - 1

Interior(W, H, x, y) == x > 0 /\ x < W - 1 /\ y > 0 /\ y < H - 1

Gx(W, data, x, y) ==
    LET k == y * W + x
        L(xx, yy) == LumAt(data, k, yy * W + xx)
    IN  L(x - 1, y - 1) * (0 - 1) + L(x + 1, y - 1)
          + L(x - 1, y) * (0 - 2) + L(x + 1, y) * 2
          + L(x - 1, y + 1) * (0 - 1) + L(x + 1, y + 1)

Gy(W, data, x, y) ==
    LET k == y * W + x
        L(xx, yy) == LumAt(data, k, yy * W + xx)
    IN  L(x - 1, y - 1) * (0 - 1) + L(x, y - 1) * (0 - 2) + L(x + 1, y - 1) * (0 - 1)
          + L(x - 1, y + 1) + L(x, y + 1) * 2 + L(x + 1, y + 1)

\* Math.sqrt(gx*gx + gy*gy) > threshold, for a threshold >= 0.
IsEdge(W, data, thr, x, y) ==
    LET gx == Gx(W, data, x, y)
        gy == Gy(W, data, x, y)
    IN  gx * gx + gy * gy > thr * thr

\* The edges array after the scan of lines 31-56.
EdgeMask(W, H, data, thr) ==
    [n \in 1..(W * H) |->
        LET x == (n - 1) % W
            y == (n - 1) \div W
        IN  IF Interior(W, H, x, y) /\ IsEdge(W, data, thr, x, y) THEN 1 ELSE 0]

\* ---------------------------------------------------------- worker: seeding
\* The seeding scan of lines 62-68: interior indices in row-major order whose
\* edges entry is set.
SeedScan(W, H, edges) ==
    SelectSeq([n \in 1..(W * H) |-> n - 1],
              LAMBDA k : /\ k % W >= 1 /\ k % W < W - 1
                         /\ k \div W >= 1 /\ k \div W < H - 1
                         /\ At(edges, k) = 1)

\* queue[queueEnd++] = v for each v of vs in turn, from queueEnd on.  A store
\* past the end of the Uint32Array is dropped while queueEnd still advances.
Store(queue, at, v) ==
    IF at < Len(queue) THEN [queue EXCEPT ![at + 1] = v] ELSE queue

Enqueue(queue, queueEnd, vs) ==
    LET q1 == IF Len(vs) >= 1 THEN Store(queue, queueEnd, vs[1]) ELSE queue
        q2 == IF Len(vs) >= 2 THEN Store(q1, queueEnd + 1, vs[2]) ELSE q1
        q3 == IF Len(vs) >= 3 THEN Store(q2, queueEnd + 2, vs[3]) ELSE q2
    IN  IF Len(vs) >= 4 THEN Store(q3, queueEnd + 3, vs[4]) ELSE q3

\* The queue after the seeding scan: the seeds from index 0 on, zero elsewhere.
\* There are fewer interior pixels than queue entries.
SeedQueue(n, seeds) ==
    [k \in 1..n |-> IF k <= Len(seeds) THEN seeds[k] ELSE 0]

\* ------------------------------------------------------- worker: traversal
\* NearWhite testing the red channel alone.
NearWhiteRedOnly(p) == p[1] > BackgroundLevel

NearWhite(p) ==
    p[1] > BackgroundLevel /\ p[2] > BackgroundLevel /\ p[3] > BackgroundLevel

\* ClearAlpha storing at idx + 2.
ClearBlue(p) == [p EXCEPT ![3] = 0]

\* data[idx + 3] = 0 of line 91.
ClearAlpha(p) == [p EXCEPT ![4] = 0]

\* The bounds test of lines 102-108 on a neighbour index.
\* A traversal that marks nothing.
MarkNothing(visited, pos) == visited

\* visited[pos] = 1 of line 81.
Mark(visited, pos) == [visited EXCEPT ![pos + 1] = 1]

NeighborOk(W, H, visited, neighbor) ==
    LET nx == JsMod(neighbor, W)
        ny == FloorDiv(neighbor, W)
    IN  /\ nx >= 0 /\ nx < W
        /\ ny >= 0 /\ ny < H
        /\ At(visited, neighbor) = 0

Neighbors(W, pos) == <<pos - W, pos + W, pos - 1, pos + 1>>

\* threshold || 30 of line 126.
EffectiveThreshold(t) == IF t = 0 THEN DefaultThreshold ELSE t

\* The locals of an invocation.  Two fields record what the invocation has
\* done and are read by no statement: work[pos] counts the passes that ran the
\* body of `if (!visited[pos])` for pos, and sideways holds <<pos, neighbor,
\* queueEnd>> for every pos - 1 and pos + 1 that line 110 has enqueued, with
\* the value of the write cursor at that store.
NoJob ==
    [pc |-> "none", width |-> 0, height |-> 0, data |-> <<>>, thr |-> 0,
     edges |-> <<>>, queue |-> <<>>, queueStart |-> 0, queueEnd |-> 0,
     visited |-> <<>>, i |-> 0, processEnd |-> 0, work |-> <<>>, sideways |-> {}]

\* The test of the while loop of line 73 and, when it passes, line 74.
EnterLoop(j) ==
    IF j.queueStart < j.queueEnd
    THEN [j EXCEPT !.pc = "loop",
                   !.processEnd = Min(j.queueStart + chunkSize, j.queueEnd),
                   !.i = j.queueStart]
    ELSE [j EXCEPT !.pc = "return"]

\* Lines 58-74: the queue holding the seeds in the given order, nothing
\* visited, and the first test of the while loop.
StartFrom(imageData, thr, edges, seeds) ==
    LET W == imageData.width
        H == imageData.height
        zeros == [k \in 1..(W * H) |-> 0]
    IN  EnterLoop([pc |-> "loop", width |-> W, height |-> H,
                   data |-> imageData.data, thr |-> thr, edges |-> edges,
                   queue |-> SeedQueue(W * H, seeds),
                   queueStart |-> 0, queueEnd |-> Len(seeds),
                   visited |-> zeros, i |-> 0, processEnd |-> 0,
                   work |-> zeros, sideways |-> {}])

\* onmessage up to the first pass of the while loop: lines 21-74.
StartJob(imageData, threshold) ==
    LET W == imageData.width
        H == imageData.height
        thr == EffectiveThreshold(threshold)
        edges == EdgeMask(W, H, imageData.data, thr)
    IN  StartFrom(imageData, thr, edges, SeedScan(W, H, edges))

\* One pass of the for loop of lines 76-114.  An index at or past the end of
\* the queue array reads undefined, which marks no pixel and enqueues nothing.
VisitStep(j) ==
    LET n == j.width * j.height
        pos == At(j.queue, j.i)
        nbs == Neighbors(j.width, pos)
        push == SelectSeq(nbs, LAMBDA nb : NeighborOk(j.width, j.height, j.visited, nb))
        ok(m) == NeighborOk(j.width, j.height, j.visited, nbs[m])
        at(m) == j.queueEnd + Cardinality({q \in 1..(m - 1) : ok(q)})
    IN  IF j.i >= n \/ At(j.visited, pos) # 0
        THEN [j EXCEPT !.i = j.i + 1]
        ELSE [j EXCEPT !.i = j.i + 1,
                       !.visited = Mark(j.visited, pos),
                       !.work[pos + 1] = @ + 1,
                       !.sideways = @ \cup {<<pos, nbs[m], at(m)>> : m \in
                                      {q \in {3, 4} : ok(q)}},
                       !.data[pos + 1] = IF NearWhite(At(j.data, pos))
                                         THEN ClearAlpha(At(j.data, pos))
                                         ELSE At(j.data, pos),
                       !.queue = Enqueue(j.queue, j.queueEnd, push),
                       !.queueEnd = j.queueEnd + Len(push)]

\* A chunk that leaves the read cursor where it was.
EndChunkStuck(j) ==
    IF j.processEnd < j.queueEnd THEN [j EXCEPT !.pc = "yield"]
                                 ELSE [j EXCEPT !.pc = "return"]

\* Lines 116-120: the chunk is done; yield when entries remain.
EndChunk(j) ==
    IF j.processEnd < j.queueEnd
    THEN [j EXCEPT !.queueStart = j.processEnd, !.pc = "yield"]
    ELSE [j EXCEPT !.queueStart = j.processEnd, !.pc = "return"]

\* n passes of the for loop.  The state after the first half is bound by a
\* set constructor, which makes TLC compute it once.
RECURSIVE Visits(_, _)
Visits(j, n) ==
    IF n <= 0 THEN j
    ELSE IF n = 1 THEN VisitStep(j)
    ELSE CHOOSE r \in {Visits(a, n - (n \div 2)) : a \in {Visits(j, n \div 2)}} : TRUE

\* Lines 76-120: the for loop from i to processEnd and the code after it, which
\* the worker runs without giving up its thread.
RunChunk(j) == CHOOSE r \in {EndChunk(a) : a \in {Visits(j, j.processEnd - j.i)}} : TRUE

\* After the await of line 119: the while test again and, when it passes, the
\* next chunk.
ResumeLoop(j) ==
    LET e == EnterLoop(j)
    IN  IF e.pc = "loop" THEN RunChunk(e) ELSE e

\* ------------------------------------------------------- canvas and strips
NoCanvas == [width |-> 0, height |-> 0, data |-> <<>>]

\* getImageData that always reads from the top of the canvas.
GetImageDataTop(canvas, sy, sw, sh) ==
    [width |-> sw, height |-> sh, data |-> SubSeq(canvas.data, 1, sh * sw)]

\* ctx.getImageData(0, sy, sw, sh) on a canvas sw pixels wide.
GetImageData(canvas, sy, sw, sh) ==
    [width |-> sw, height |-> sh,
     data |-> SubSeq(canvas.data, sy * sw + 1, (sy + sh) * sw)]

\* ctx.putImageData(imageData, 0, dy) on a canvas as wide as imageData.
PutImageData(canvas, imageData, dy) ==
    LET off == dy * canvas.width
        len == imageData.width * imageData.height
    IN  [canvas EXCEPT !.data =
            SubSeq(canvas.data, 1, off) \o imageData.data
              \o SubSeq(canvas.data, off + len + 1, Len(canvas.data))]

\* Math.min(500, height) of line 209.
StripChunkSize(height) == Min(MaxChunkHeight, height)

\* Math.min(chunkSize, height - processedHeight) of line 213.
CurrentHeight(height, done) == Min(StripChunkSize(height), height - done)

\* Progress with the rounding applied to the quotient before the scaling.
ProgressRoundedFirst(done, height) == ((2 * done + height) \div (2 * height)) * 100

\* Math.round((processedHeight / height) * 100) of line 228.
Progress(done, height) == (200 * done + height) \div (2 * height)

\* A run that ends without its finally block.
NoFinally(processing) == processing

\* setIsProcessing(false) of the finally block, lines 242-244.
AfterFinally(processing) == FALSE

\* CanStart without the isProcessing test.
CanStartAlways(processing) == TRUE

\* The guard of line 197; the canvas and the worker exist once mounted.
CanStart(processing) == ~processing

\* WriteRow reading processedHeight after the strip has been counted.
WriteRowAfter(done, rows) == done + rows

\* The row at which the message handler of line 219 writes the strip.
WriteRow(done, rows) == done

\* The statement the worker executes next, applied to its locals.
StepJob(j) ==
    IF j.pc = "loop" THEN RunChunk(j)
    ELSE IF j.pc = "yield" THEN ResumeLoop(j)
    ELSE j

\* n statements in a row.
RECURSIVE Iterate(_, _)
Iterate(j, n) ==
    IF n = 0 THEN j
    ELSE IF n = 1 THEN StepJob(j)
    ELSE LET h == n \div 2
             a == Iterate(j, h)
         IN  IF a.i >= 0 THEN Iterate(a, n - h) ELSE a

\* removeBackground(imageData, threshold || 30) run to its return.  Fewer than
\* 5*W*H entries are ever queued (the seeds and four per marked pixel), and a
\* chunk that yields has processed at least one of them.
RunWorker(imageData, threshold) ==
    Iterate(StartJob(imageData, threshold),
            5 * imageData.width * imageData.height + 2)

\* ------------------------------------------------------------ input images
Uniform(W, H, colour) ==
    [width |-> W, height |-> H, data |-> [n \in 1..(W * H) |-> colour]]

\* Images of one base colour with at most MaxMarks pixels of another colour.
MarkSets(n) == {S \in SUBSET (1..n) : Cardinality(S) <= MaxMarks}

Marked(W, H, base) ==
    { [width |-> W, height |-> H,
       data |-> [n \in 1..(W * H) |-> IF n \in DOMAIN m THEN m[n] ELSE base]] :
      m \in UNION { [S -> Palette \ {base}] : S \in MarkSets(W * H) } }

SmallImages ==
    UNION { Marked(W, H, base) :
            W \in 1..MaxW, H \in 1..MaxH, base \in {White, Black} }

\* The 10x10 scenarios: all white, and white with a black ring one pixel
\* inside the image edges.
OnRing(x, y) ==
    /\ x >= 1 /\ x <= 8 /\ y >= 1 /\ y <= 8
    /\ (x = 1 \/ x = 8 \/ y = 1 \/ y = 8)

WhiteImage == Uniform(10, 10, White)

RingImage ==
    [width |-> 10, height |-> 10,
     data |-> [n \in 1..100 |->
                  IF OnRing((n - 1) % 10, (n - 1) \div 10) THEN Black ELSE White]]

\* A white image with two interior pixels.
WideImage == Uniform(4, 3, White)

\* A white image whose traversal queues more than chunkSize entries.
LargeImage == Uniform(20, 20, White)

\* Two strips, 3 x 502: black, with white pixels down column 0 of the first
\* strip (every 25th row, and row 497), which make the pixels of column 1
\* beside and below them detected edges, none of them on rows 499 or 500, and
\* one white pixel at (1, 501), in the second strip.
SeamImage ==
    [width |-> 3, height |-> 502,
     data |-> [n \in 1..(3 * 502) |->
                  LET x == (n - 1) % 3
                      y == (n - 1) \div 3
                  IN  IF \/ x = 0 /\ (y = 497 \/ (y % 25 = 24 /\ y < 490))
                         \/ x = 1 /\ y = 501
                      THEN White ELSE Black]]

\* One-column images of every height up to MaxRows.
ColumnImages == { Uniform(1, H, White) : H \in 1..MaxRows }

\* Canvas heights for the strip arithmetic alone.
Heights == (1..MaxRows) \cup {HugeRows}

Thresholds == {0, 10, 30}

\* --------------------------------------------------------------- variables
VARIABLES
    image,            \* content of the fabric canvas (what toCanvas() exports)
    threshold,        \* React state threshold
    isProcessing,     \* React state isProcessing
    pc,               \* where the async removeBackground of the component stands
    ctx,              \* the exported canvas the current run reads and writes
    height,           \* const height of line 208
    terminated,       \* the cleanup of lines 134-136 has run
    processedHeight,  \* rows done in the current run
    currentHeight,    \* rows of the strip in flight
    progressLog,      \* progress values toasted by the current run
    toast,            \* kind of the last toast
    inbox,            \* requests posted to the worker and not yet received
    outbox,           \* responses posted by the worker and not yet delivered
    job,              \* locals of the worker's running onmessage invocation
    undoStack,        \* React state undoStack
    redoStack,        \* React state redoStack
    runs,             \* invocations of removeBackground so far
    dispatched,       \* strips posted by the current run, as <<start, rows>>
    written           \* rows at which the current run wrote a response back

vars == <<image, threshold, isProcessing, pc, ctx, height, terminated, processedHeight,
          currentHeight,
          progressLog, toast, inbox, outbox, job, undoStack, redoStack, runs,
          dispatched, written>>

mainVars == <<image, threshold, isProcessing, pc, ctx, height, terminated, processedHeight,
              currentHeight, progressLog, toast, undoStack, redoStack, runs,
              dispatched, written>>

\* ------------------------------------------------------- component: history
\* JSON.stringify(canvasRef.current.toJSON()) of line 249 and
\* loadFromJSON(JSON.parse(state)) of line 272: a saved state is a string, not
\* a canvas, and loading it gives the canvas content it was taken from.
ToJSON(canvas) == [json |-> canvas]

LoadFromJSON(state) == state.json

\* The history h is the canvas content with the two stacks.
History(canvas, undo, redo) == [canvas |-> canvas, undoStack |-> undo, redoStack |-> redo]

\* Lines 270-275.
loadState(h, state) == [h EXCEPT !.canvas = LoadFromJSON(state)]

\* Lines 247-252.
saveState(h) ==
    [h EXCEPT !.undoStack = Append(h.undoStack, ToJSON(h.canvas)),
              !.redoStack = <<>>]

\* Lines 254-260.
handleUndo(h) ==
    IF Len(h.undoStack) = 0 THEN h
    ELSE LET currentState == h.undoStack[Len(h.undoStack)]
         IN  loadState([h EXCEPT !.redoStack = Append(h.redoStack, currentState),
                                 !.undoStack = SubSeq(h.undoStack, 1, Len(h.undoStack) - 1)],
                       currentState)

\* Lines 262-268.
handleRedo(h) ==
    IF Len(h.redoStack) = 0 THEN h
    ELSE LET nextState == h.redoStack[Len(h.redoStack)]
         IN  loadState([h EXCEPT !.undoStack = Append(h.undoStack, nextState),
                                 !.redoStack = SubSeq(h.redoStack, 1, Len(h.redoStack) - 1)],
                       nextState)

\* The state once the initial image has loaded and saveState() has run.
InitWith(images, thresholds) ==
    /\ image \in images
    /\ threshold \in thresholds
    /\ isProcessing = FALSE
    /\ pc = "idle"
    /\ ctx = NoCanvas
    /\ height = 0
    /\ terminated = FALSE
    /\ processedHeight = 0
    /\ currentHeight = 0
    /\ progressLog = <<>>
    /\ toast = "none"
    /\ inbox = <<>>
    /\ outbox = <<>>
    /\ job = NoJob
    /\ undoStack = <<ToJSON(image)>>
    /\ redoStack = <<>>
    /\ runs = 0
    /\ dispatched = <<>>
    /\ written = <<>>

\* ----------------------------------------------------- component: scheduler
\* Lines 213-224: extract the strip at row `done` of `canvas` and post it;
\* `sent` are the strips this run posted before.
PostStrip(canvas, done, sent) ==
    LET rows == CurrentHeight(canvas.height, done)
    IN  /\ currentHeight' = rows
        /\ inbox' = Append(inbox,
               [imageData |-> GetImageData(canvas, done, canvas.width, rows),
                threshold |-> threshold])
        /\ dispatched' = Append(sent, <<done, rows>>)

\* removeBackground of the component up to its first await (lines 196-225), or
\* to its end when the 2D context is missing or a call throws.  The callback
\* is re-created on every change of isProcessing, so the guard reads the
\* current state.
RemoveBackground(outcome) ==
    /\ ~terminated
    /\ runs < MaxRuns
    /\ runs' = runs + 1
    /\ UNCHANGED <<image, threshold, outbox, job, undoStack, redoStack, terminated>>
    /\ IF ~CanStart(isProcessing)
       THEN UNCHANGED <<isProcessing, pc, ctx, height, processedHeight, currentHeight,
                        progressLog, toast, inbox, dispatched, written>>
       ELSE /\ progressLog' = <<>>
            /\ written' = <<>>
            /\ processedHeight' = 0
            /\ IF outcome = "ok"
               THEN /\ isProcessing' = TRUE
                    /\ toast' = "info"
                    /\ ctx' = image
                    /\ height' = image.height
                    /\ pc' = "awaitStrip"
                    /\ PostStrip(image, 0, <<>>)
               ELSE /\ isProcessing' = AfterFinally(TRUE)
                    /\ toast' = IF outcome = "throw" THEN "error" ELSE "info"
                    /\ ctx' = NoCanvas
                    /\ height' = 0
                    /\ pc' = "idle"
                    /\ currentHeight' = 0
                    /\ dispatched' = <<>>
                    /\ UNCHANGED inbox

\* A message event from the worker: the handler of lines 217-222 when one is
\* registered, and the code after the await up to the next await (lines
\* 227-232).
OnMessage ==
    /\ outbox # <<>>
    /\ outbox' = Tail(outbox)
    /\ UNCHANGED <<image, threshold, job, undoStack, redoStack, runs, isProcessing,
                   height, terminated>>
    /\ IF pc = "awaitStrip"
       THEN LET row == WriteRow(processedHeight, currentHeight)
                canvas == PutImageData(ctx, Head(outbox).processedImageData, row)
                done == processedHeight + currentHeight
            IN  /\ ctx' = canvas
                /\ written' = Append(written, row)
                /\ processedHeight' = done
                /\ progressLog' = Append(progressLog, Progress(done, height))
                /\ toast' = "info"
                /\ IF done < height
                   THEN /\ PostStrip(canvas, done, dispatched)
                        /\ pc' = "awaitStrip"
                   ELSE /\ pc' = "awaitBitmap"
                        /\ UNCHANGED <<currentHeight, inbox, dispatched>>
       ELSE UNCHANGED <<ctx, written, processedHeight, progressLog, toast, pc,
                        currentHeight, inbox, dispatched>>

\* Lines 232-244: createImageBitmap settles; the result replaces the canvas
\* content and saveState() records it, or the catch block reports the failure.
FinishRun(outcome) ==
    /\ pc = "awaitBitmap"
    /\ pc' = "idle"
    /\ isProcessing' = AfterFinally(isProcessing)
    /\ UNCHANGED <<threshold, ctx, height, terminated, processedHeight, currentHeight,
                   progressLog, inbox, outbox, job, runs, dispatched, written>>
    /\ IF outcome = "ok"
       THEN /\ LET h == saveState(History(ctx, undoStack, redoStack))
               IN  /\ image' = h.canvas
                   /\ undoStack' = h.undoStack
                   /\ redoStack' = h.redoStack
            /\ toast' = "success"
       ELSE /\ toast' = "error"
            /\ UNCHANGED <<image, undoStack, redoStack>>

\* ------------------------------------------------------------------ worker
\* self.onmessage: lines 20-74.  The scheduler posts one request at a time, so
\* an invocation starts only when the previous one has posted its response.
WorkerReceive ==
    /\ inbox # <<>>
    /\ job.pc = "none"
    /\ job' = StartJob(Head(inbox).imageData, Head(inbox).threshold)
    /\ inbox' = Tail(inbox)
    /\ UNCHANGED <<outbox, mainVars>>

\* The first chunk of the traversal, up to the await of line 119 or to the
\* return.
Chunk ==
    /\ job.pc = "loop"
    /\ job' = RunChunk(job)
    /\ UNCHANGED <<inbox, outbox, mainVars>>

\* The zero-delay timer of line 119 fires: the while loop goes round, up to
\* the next await or to the return.
Resume ==
    /\ job.pc = "yield"
    /\ job' = ResumeLoop(job)
    /\ UNCHANGED <<inbox, outbox, mainVars>>

\* Lines 123-127: removeBackground returns imageData and onmessage posts it.
WorkerPost ==
    /\ job.pc = "return"
    /\ outbox' = Append(outbox,
           [processedImageData |->
               [width |-> job.width, height |-> job.height, data |-> job.data]])
    /\ job' = NoJob
    /\ UNCHANGED <<inbox, mainVars>>

\* Worker.terminate() that lets the worker go on.
StillRunning(w) == w

\* What Worker.terminate() leaves of the worker w: its script is aborted, its
\* tasks are discarded and the pending messages of its port are dropped.
Terminate(w) == [inbox |-> <<>>, outbox |-> <<>>, job |-> NoJob]

\* The component unmounts: the effect cleanup of lines 134-136 terminates the
\* worker.  The running invocation is aborted and no message is delivered in
\* either direction afterwards; the pending removeBackground of the component
\* is left as it is.
Unmount ==
    /\ ~terminated
    /\ terminated' = TRUE
    /\ LET w == Terminate([inbox |-> inbox, outbox |-> outbox, job |-> job])
       IN  inbox' = w.inbox /\ outbox' = w.outbox /\ job' = w.job
    /\ UNCHANGED <<image, threshold, isProcessing, pc, ctx, height, processedHeight,
                   currentHeight, progressLog, toast, undoStack, redoStack, runs,
                   dispatched, written>>

Outcomes == {"ok", "noctx", "throw"}

Next ==
    \/ \E o \in Outcomes : RemoveBackground(o)
    \/ OnMessage
    \/ \E o \in {"ok", "throw"} : FinishRun(o)
    \/ WorkerReceive
    \/ Chunk
    \/ Resume
    \/ WorkerPost
    \/ Unmount

\* Small images of every shape, the two 10x10 scenarios, an image that makes
\* the worker yield, and a two-strip image.
Init == InitWith(SmallImages \cup {WideImage, WhiteImage, RingImage, LargeImage,
                                   SeamImage},
                 Thresholds)

Spec == Init /\ [][Next]_vars

\* The worker under a fair executor: a worker that can run its next chunk,
\* whose zero-delay timer of line 119 is pending, or that has returned from
\* removeBackground, eventually does that step.
SpecFair ==
    /\ Init
    /\ [][Next]_vars
    /\ WF_vars(Chunk)
    /\ WF_vars(Resume)
    /\ WF_vars(WorkerPost)

\* One-column images of every height: the scheduler's strips and progress.
InitSched == InitWith(ColumnImages \cup {LargeImage}, {DefaultThreshold})

SpecSched == InitSched /\ [][Next]_vars

\* The strip arithmetic of the while loop of lines 212-229 on its own: the
\* loop reads nothing of the canvas but its height, so the strips and the
\* progress values of a run are those of this loop with the exchange of each
\* strip with the worker left out.
InitStrips ==
    /\ height \in Heights
    /\ image = NoCanvas
    /\ threshold = DefaultThreshold
    /\ isProcessing = TRUE
    /\ pc = "strips"
    /\ ctx = NoCanvas
    /\ terminated = FALSE
    /\ processedHeight = 0
    /\ currentHeight = 0
    /\ progressLog = <<>>
    /\ toast = "info"
    /\ inbox = <<>>
    /\ outbox = <<>>
    /\ job = NoJob
    /\ undoStack = <<>>
    /\ redoStack = <<>>
    /\ runs = 1
    /\ dispatched = <<>>
    /\ written = <<>>

\* One pass of the while loop: lines 213, 227 and 228.
StripPass ==
    /\ pc = "strips"
    /\ processedHeight < height
    /\ LET rows == CurrentHeight(height, processedHeight)
           done == processedHeight + rows
       IN  /\ currentHeight' = rows
           /\ dispatched' = Append(dispatched, <<processedHeight, rows>>)
           /\ written' = Append(written, WriteRow(processedHeight, rows))
           /\ processedHeight' = done
           /\ progressLog' = Append(progressLog, Progress(done, height))
           /\ pc' = IF done < height THEN "strips" ELSE "awaitBitmap"
    /\ UNCHANGED <<image, threshold, isProcessing, ctx, height, terminated, toast,
                   inbox, outbox, job, undoStack, redoStack, runs>>

NextStrips ==
    \/ StripPass
    \/ \E o \in {"ok", "throw"} : FinishRun(o)

SpecStrips == InitStrips /\ [][NextStrips]_vars

\* The history on its own: edits that end in saveState() (lines 324, 338,
\* 352, 374, 390), undo and redo, with no background removal under way.
Contents == { Uniform(1, 1, colour) : colour \in Palette }

InitHistory == InitWith(Contents, {DefaultThreshold})

historyVars == <<threshold, isProcessing, pc, ctx, height, terminated, processedHeight,
                 currentHeight, progressLog, toast, inbox, outbox, job, runs,
                 dispatched, written>>

\* The step to the history h.
Becomes(h) ==
    /\ image' = h.canvas
    /\ undoStack' = h.undoStack
    /\ redoStack' = h.redoStack
    /\ UNCHANGED historyVars

\* An editing handler: the canvas gets new content and saveState() runs.
Edit(content) ==
    /\ Len(undoStack) < MaxStates
    /\ content # image
    /\ Becomes(saveState(History(content, undoStack, redoStack)))

\* A click on the undo button that finds a saved state.
HandleUndo ==
    /\ Len(undoStack) # 0
    /\ Becomes(handleUndo(History(image, undoStack, redoStack)))

\* A click on the redo button that finds an undone state.
HandleRedo ==
    /\ Len(redoStack) # 0
    /\ Becomes(handleRedo(History(image, undoStack, redoStack)))

NextHistory ==
    \/ \E content \in Contents : Edit(content)
    \/ HandleUndo
    \/ HandleRedo

SpecHistory == InitHistory /\ [][NextHistory]_vars

\* ============================================================= properties
\* The strip the running worker invocation was given: the rows of the canvas
\* at processedHeight, which the component overwrites only with the response.
StripInput == GetImageData(ctx, processedHeight, ctx.width, currentHeight)

AllAbove240(p) == p[1] > 240 /\ p[2] > 240 /\ p[3] > 240

\* C1: when the worker's removeBackground returns on a strip whose pixels all
\* started with non-zero alpha, a pixel has alpha 0 exactly if it was marked
\* visited and its R, G and B all exceed 240; every other pixel keeps its
\* original alpha.
C1_AlphaZeroIffVisitedNearWhite ==
    (job.pc = "return" /\ \A n \in 1..Len(StripInput.data) : StripInput.data[n][4] # 0)
    => \A n \in 1..Len(job.data) :
          LET hit == job.visited[n] = 1 /\ AllAbove240(StripInput.data[n])
          IN  /\ (job.data[n][4] = 0) <=> hit
              /\ ~hit => job.data[n][4] = StripInput.data[n][4]

C1_Witness ==
    /\ job.pc = "return"
    /\ \A n \in 1..Len(StripInput.data) : StripInput.data[n][4] # 0
    /\ \E n \in 1..Len(job.data) : job.visited[n] = 1 /\ job.data[n][4] = 0
    /\ \E n \in 1..Len(job.data) :
          job.visited[n] = 0 /\ AllAbove240(job.data[n]) /\ job.data[n][4] # 0
    /\ \E n \in 1..Len(job.data) :
          job.visited[n] = 1 /\ ~AllAbove240(job.data[n]) /\ job.data[n][4] # 0

\* C2: for an image whose pixels all have the same RGB, the worker's edge mask
\* is all false, the queue is never seeded, and every pixel keeps its alpha.
SameRGB(p, q) == p[1] = q[1] /\ p[2] = q[2] /\ p[3] = q[3]

UniformColour(img) == \A n \in 1..Len(img.data) : SameRGB(img.data[n], img.data[1])

C2_UniformImageUntouched ==
    (UniformColour(image) /\ pc = "awaitStrip" /\ job.pc # "none")
    => /\ \A n \in 1..Len(job.edges) : job.edges[n] = 0
       /\ job.queueEnd = 0
       /\ \A n \in 1..Len(job.data) : job.data[n][4] = StripInput.data[n][4]

\* C3: the edge mask is false on row 0, row H-1, column 0 and column W-1 of
\* every strip, whatever its size and the threshold, and the seeding scan
\* queues no border pixel.
OnBorder(W, H, k) ==
    k % W = 0 \/ k % W = W - 1 \/ k \div W = 0 \/ k \div W = H - 1

C3_BorderNeverEdgeNorSeed ==
    job.pc # "none"
    => /\ \A n \in 1..Len(job.edges) :
             OnBorder(job.width, job.height, n - 1) => job.edges[n] = 0
       /\ job.i = 0
          => \A i \in 1..Min(job.queueEnd, Len(job.queue)) :
                ~OnBorder(job.width, job.height, job.queue[i])

C3_Witness ==
    /\ job.pc = "loop"
    /\ job.i = 0
    /\ job.queueEnd > 0
    /\ \E n \in 1..Len(job.edges) : job.edges[n] = 1

\* C4: a near-white region of which no pixel is an edge pixel or 4-adjacent to
\* one is never dequeued, so its pixels keep their alpha.
Adjacent(W, a, b) ==
    \/ a \div W = b \div W /\ (a - b = 1 \/ b - a = 1)
    \/ a % W = b % W /\ (a - b = W \/ b - a = W)

NearEdge(j, a) ==
    \/ j.edges[a + 1] = 1
    \/ \E b \in 0..(Len(j.edges) - 1) : Adjacent(j.width, a, b) /\ j.edges[b + 1] = 1

RECURSIVE Region(_, _, _)
\* The near-white pixels connected to the set S through near-white pixels.
Region(j, orig, S) ==
    LET more == {b \in 0..(Len(orig) - 1) :
                    /\ b \notin S
                    /\ AllAbove240(orig[b + 1])
                    /\ \E a \in S : Adjacent(j.width, a, b)}
    IN  IF more = {} THEN S ELSE Region(j, orig, S \cup more)

C4_RegionAwayFromEdgesKept ==
    job.pc = "return"
    => \A a \in 0..(Len(job.data) - 1) :
          LET orig   == StripInput.data
              region == Region(job, orig, {a})
          IN  (AllAbove240(orig[a + 1]) /\ \A b \in region : ~NearEdge(job, b))
              => /\ job.visited[a + 1] = 0
                 /\ job.data[a + 1][4] = orig[a + 1][4]

\* C5: on the 10x10 picture with a one-pixel black ring around a 6x6 white
\* interior and a white 2-pixel margin, at threshold 10, the interior pixels
\* end with alpha 0 and the outermost border row and column stay fully opaque.
C5_RingScenario ==
    (image = RingImage /\ threshold = 10 /\ job.pc = "return")
    => \A k \in 0..99 :
          LET x == k % 10
              y == k \div 10
          IN  /\ (x \in 2..7 /\ y \in 2..7) => job.data[k + 1][4] = 0
              /\ OnBorder(10, 10, k) => job.data[k + 1][4] = 255

\* C6: the progress percentages of a run never decrease, each lies in 0..100,
\* and in a run that succeeds the last one is 100 and the first one is positive
\* whenever the canvas has at most 100000 rows.
ProgressBounded ==
    \A i \in 1..Len(progressLog) :
       /\ progressLog[i] \in 0..100
       /\ i > 1 => progressLog[i - 1] <= progressLog[i]

ProgressEndsAt100 ==
    toast = "success"
    => Len(progressLog) >= 1 /\ progressLog[Len(progressLog)] = 100

Outstanding == Len(inbox) + (IF job.pc = "none" THEN 0 ELSE 1) + Len(outbox)

C7_OneStripInFlight ==
    /\ Outstanding <= 1
    /\ Len(dispatched) <= Len(written) + 1
    /\ \A i \in 2..Len(dispatched) : dispatched[i - 1][1] < dispatched[i][1]

C7_Witness ==
    /\ Outstanding = 1
    /\ Len(dispatched) = 3
    /\ Len(written) = 2

\* C8: when no detected edge lies on the rows next to a strip seam, the canvas
\* after the strip-by-strip run equals the result of one worker invocation on
\* the whole canvas.
SeamRows(H) ==
    {y \in 0..(H - 1) : \E m \in 1..(H \div 500) : y = 500 * m \/ y = 500 * m - 1}

NoSeamEdge(img, thr) ==
    LET edges == EdgeMask(img.width, img.height, img.data, EffectiveThreshold(thr))
    IN  \A y \in SeamRows(img.height) :
           \A x \in 0..(img.width - 1) : At(edges, y * img.width + x) = 0

C8_ChunkedEqualsWhole ==
    (pc = "awaitBitmap" /\ image.height > 500 /\ NoSeamEdge(image, threshold))
    => ctx.data = RunWorker(image, threshold).data

\* C9: against the canvas it started from, a run that has written all its
\* strips back has changed nothing but alpha bytes, every alpha byte it changed
\* is 0, and width and height are the same; the same holds of each strip the
\* worker returns.
OnlyAlphaCleared(before, after) ==
    /\ after.width = before.width
    /\ after.height = before.height
    /\ Len(after.data) = Len(before.data)
    /\ \A n \in 1..Len(before.data) :
          /\ SameRGB(after.data[n], before.data[n])
          /\ after.data[n][4] = before.data[n][4] \/ after.data[n][4] = 0

C9_OnlyAlphaCleared ==
    /\ pc = "awaitBitmap" => OnlyAlphaCleared(image, ctx)
    /\ job.pc = "return"
       => /\ job.width = StripInput.width
          /\ job.height = StripInput.height
          /\ OnlyAlphaCleared(StripInput, [width |-> job.width, height |-> job.height,
                                           data |-> job.data])

C9_Witness ==
    /\ pc = "awaitBitmap"
    /\ \E n \in 1..Len(ctx.data) : ctx.data[n][4] = 0 /\ image.data[n][4] # 0
    /\ \E n \in 1..Len(ctx.data) : ctx.data[n][4] # 0

\* C10: the strips of a run partition the rows 0..H-1 without gap or overlap,
\* each has between 1 and min(500, H) rows, and each response is written back
\* at the row its strip was taken from.
C10_StripsPartitionRows ==
    pc \in {"awaitStrip", "awaitBitmap"}
    => /\ Len(dispatched) >= 1
       /\ dispatched[1][1] = 0
       /\ \A i \in 1..Len(dispatched) :
             /\ dispatched[i][2] \in 1..Min(500, height)
             /\ i > 1 => dispatched[i][1] = dispatched[i - 1][1] + dispatched[i - 1][2]
             /\ dispatched[i][1] + dispatched[i][2] <= height
       /\ \A i \in 1..Len(written) : written[i] = dispatched[i][1]
       /\ pc = "awaitBitmap"
          => /\ Len(written) = Len(dispatched)
             /\ dispatched[Len(dispatched)][1] + dispatched[Len(dispatched)][2] = height

C10_Witness ==
    /\ pc = "awaitBitmap"
    /\ Len(dispatched) = 3
    /\ written = <<0, 500, 1000>>

\* C11: once the worker has been terminated while a strip request is
\* outstanding, the request is never answered: nothing of the worker is in
\* flight, and from then on the run dispatches no strip, reports no progress,
\* neither success nor failure, and isProcessing stays true.
Stalled == terminated /\ pc = "awaitStrip"

C11_TerminatedRunStalls ==
    /\ [](Stalled => (isProcessing /\ Outstanding = 0))
    /\ [][Stalled => (Stalled' /\ isProcessing'
                      /\ UNCHANGED <<dispatched, written, progressLog, toast,
                                     processedHeight, ctx>>)]_vars

C11_Witness ==
    /\ Stalled
    /\ Len(dispatched) = 2
    /\ Len(written) = 1

\* C12: within one invocation of the traversal the visited set only grows and
\* never holds more than width * height pixels, and for no pixel index does
\* the body guarded by `if (!visited[pos])` (near-white test and neighbour
\* expansion) run more than once, however often the index was queued.
VisitedOnce ==
    job.pc # "none" =>
        /\ Len(job.visited) = job.width * job.height
        /\ \A n \in 1..Len(job.visited) :
               /\ job.visited[n] \in {0, 1}
               /\ job.work[n] = job.visited[n]

VisitedGrows ==
    (job.pc # "none" /\ job'.pc # "none") =>
        \A n \in 1..Len(job.visited) : job.visited[n] <= job'.visited[n]

C12_VisitedOnceAndGrowing == []VisitedOnce /\ [][VisitedGrows]_vars

\* An index that was dequeued twice and processed once.
C12_Witness ==
    /\ job.pc # "none"
    /\ \E a \in 0..(Min(job.i, Len(job.queue)) - 1) :
           \E b \in (a + 1)..(Min(job.i, Len(job.queue)) - 1) :
               /\ At(job.queue, a) = At(job.queue, b)
               /\ job.work[At(job.queue, a) + 1] = 1

\* C13: for every strip the traversal loop of the worker terminates: under
\* fair scheduling of the zero-delay yield the read cursor reaches the write
\* cursor (the loop is left with queueStart = queueEnd) and the response is
\* posted, unless the worker is terminated first.
Traversing == job.pc \in {"loop", "yield"}

SobelX(W, data, x, y) ==
    LET L(xx, yy) == LuminanceOf(At(data, yy * W + xx))
    IN  (L(x + 1, y - 1) + 2 * L(x + 1, y) + L(x + 1, y + 1))
          - (L(x - 1, y - 1) + 2 * L(x - 1, y) + L(x - 1, y + 1))

SobelY(W, data, x, y) ==
    LET L(xx, yy) == LuminanceOf(At(data, yy * W + xx))
    IN  (L(x - 1, y + 1) + 2 * L(x, y + 1) + L(x + 1, y + 1))
          - (L(x - 1, y - 1) + 2 * L(x, y - 1) + L(x + 1, y - 1))

SobelMask(W, H, data, thr) ==
    [n \in 1..(W * H) |->
        LET x == (n - 1) % W
            y == (n - 1) \div W
            gx == SobelX(W, data, x, y)
            gy == SobelY(W, data, x, y)
        IN  IF x > 0 /\ x < W - 1 /\ y > 0 /\ y < H - 1
               /\ gx * gx + gy * gy > thr * thr
            THEN 1 ELSE 0]

\* C14: the edge mask the worker computes for a strip equals the Sobel edge
\* mask of the strip: a pixel is an edge exactly if it is interior and the
\* magnitude of the Sobel gradient over the true luminance of its eight
\* neighbours exceeds the threshold.
C14_EdgeMaskIsSobel ==
    job.pc # "none" =>
        job.edges = SobelMask(job.width, job.height, StripInput.data, job.thr)

\* C15: the queue never overflows: the number of entries enqueued during one
\* invocation (the write cursor queueEnd) never exceeds width * height, the
\* capacity of the queue array, so no enqueue is lost, and the read cursor
\* makes at most width * height dequeue steps.
C15_QueueWithinCapacity ==
    job.pc # "none" =>
        /\ job.queueEnd <= job.width * job.height
        /\ job.i <= job.width * job.height

\* C16: every value the traversal dequeues and processes is a pixel index of
\* the strip, 0..width*height-1; no neighbour outside that range is enqueued;
\* so visited and data are never read or written outside the strip.  A
\* dequeue at or past the end of the queue array yields undefined, which is
\* no pixel index.
C16_DequeuedInRange ==
    job.pc # "none" =>
        LET n == job.width * job.height
        IN  /\ \A k \in 0..(Min(job.queueEnd, Len(job.queue)) - 1) :
                   At(job.queue, k) \in 0..(n - 1)
            /\ \A k \in 0..(job.i - 1) :
                   k < Len(job.queue) /\ At(job.queue, k) \in 0..(n - 1)

\* C17: a left or right neighbour (pos - 1, pos + 1) that the traversal
\* enqueues lies in the same row as pos: nothing wraps from column 0 to the
\* end of the row above, nor from the last column to the start of the row
\* below.
C17_SidewaysSameRow ==
    job.pc # "none" =>
        \A e \in job.sideways :
            e[3] < job.width * job.height => e[1] \div job.width = e[2] \div job.width

\* The orders in which the seeds can be put into the queue.
SeedOrders(seeds) ==
    LET k == Len(seeds)
    IN  { [m \in 1..k |-> seeds[p[m]]] :
          p \in {f \in [1..k -> 1..k] : \A a, b \in 1..k : f[a] = f[b] => a = b} }

\* The traversal run to its return from the seeds in the given order.
TraverseFrom(imageData, thr, edges, seeds) ==
    Iterate(StartFrom(imageData, thr, edges, seeds),
            5 * imageData.width * imageData.height + 2)

\* C18: the result of the traversal does not depend on the order in which
\* the seeds were enqueued: from any permutation of the seeds of a strip (of
\* up to MaxSeeds seeds) the traversal ends with the same visited set and
\* the same pixel data as from the row-major order the worker uses.
C18_SeedOrderIrrelevant ==
    job.pc = "return" =>
        LET seeds == SeedScan(job.width, job.height, job.edges)
        IN  Len(seeds) <= MaxSeeds =>
                \A order \in SeedOrders(seeds) :
                    LET r == TraverseFrom(StripInput, job.thr, job.edges, order)
                    IN  r.visited = job.visited /\ r.data = job.data

\* The pixels of `count` rows of a canvas from row `from` on.
Rows(canvas, from, count) ==
    SubSeq(canvas.data, from * canvas.width + 1, (from + count) * canvas.width)

\* C19: the output rows of a strip depend on nothing but the input rows of
\* that strip (and the threshold): whatever the image holds outside strip k,
\* the rows of strip k on the canvas after its response has been written are
\* the worker's result on the rows the input image has there.  Two images of
\* one size that agree on strip k therefore get identical bytes in its rows.
\* (An image of a single strip has nothing outside it.)
C19_StripOutputFromStripInput ==
    (pc \in {"awaitStrip", "awaitBitmap"} /\ StripChunkSize(height) < height) =>
        \A k \in 1..Len(written) :
            LET start == dispatched[k][1]
                count == dispatched[k][2]
                input == [width |-> image.width, height |-> count,
                          data |-> Rows(image, start, count)]
            IN  Rows(ctx, start, count) = RunWorker(input, threshold).data

\* Both strips of a two-strip image are written, the first one changed by
\* the worker, and the second one holds a near-white pixel that is still
\* opaque.
C19_Witness ==
    /\ pc = "awaitBitmap"
    /\ Len(written) = 2
    /\ Rows(ctx, dispatched[1][1], dispatched[1][2])
         # Rows(image, dispatched[1][1], dispatched[1][2])
    /\ \E p \in 1..Len(Rows(ctx, dispatched[2][1], dispatched[2][2])) :
           LET q == Rows(ctx, dispatched[2][1], dispatched[2][2])[p]
           IN  NearWhite(q) /\ q[4] # 0

\* C20: for every threshold t of 0..255 that a request carries, the worker's
\* edge detection compares the gradient magnitude against exactly t; the
\* default 30 is used only when the request carries no threshold.  So the
\* edges array of an invocation is the one computed with the threshold of
\* the request.
C20_ThresholdUsedAsGiven ==
    job.pc # "none" =>
        job.edges = EdgeMask(job.width, job.height, StripInput.data, threshold)

\* C21: isProcessing guards the pipeline.  An invocation of removeBackground
\* while isProcessing is true dispatches no request and changes no state of
\* the component or the worker (only the count of invocations moves); and
\* whenever no run is under way (a run has finished with all strips
\* answered, with an exception, or for want of a 2D context, or none was
\* started) isProcessing is false, so that the next invocation starts a run.
IgnoredWhileProcessing ==
    (isProcessing /\ runs' # runs) =>
        UNCHANGED <<image, threshold, isProcessing, pc, ctx, height, terminated,
                    processedHeight, currentHeight, progressLog, toast, inbox, outbox,
                    job, undoStack, redoStack, dispatched, written>>

RunStarts ==
    (~isProcessing /\ runs' # runs) =>
        \/ isProcessing' /\ pc' = "awaitStrip" /\ Len(inbox') = Len(inbox) + 1
        \/ ~isProcessing' /\ pc' = "idle" /\ toast' \in {"info", "error"}

C21_ProcessingGuard ==
    /\ [](pc = "idle" <=> ~isProcessing)
    /\ [][IgnoredWhileProcessing /\ RunStarts]_vars

\* A run has finished with all its strips answered and a later invocation
\* has started the next run.
C21_Witness ==
    /\ runs = 2
    /\ Len(undoStack) = 2
    /\ isProcessing
    /\ pc = "awaitStrip"

\* C22: with at least two saved states on the undo stack, handleUndo loads
\* the canvas with the state saved before the most recent one, which is the
\* new top of the undo stack; a handleRedo after it reloads the most recent
\* state and puts both stacks back as they were before the undo; and
\* saveState always leaves the redo stack empty.
C22_UndoLoadsPreviousState ==
    LET h == History(image, undoStack, redoStack)
        n == Len(undoStack)
        undone == handleUndo(h)
        redone == handleRedo(undone)
    IN  /\ n >= 2 =>
              /\ undone.canvas = LoadFromJSON(undoStack[n - 1])
              /\ undone.canvas = LoadFromJSON(undone.undoStack[Len(undone.undoStack)])
              /\ redone.canvas = LoadFromJSON(undoStack[n])
              /\ redone.undoStack = undoStack
              /\ redone.redoStack = redoStack
        /\ saveState(h).redoStack = <<>>
====
